---- MODULE Spec2Model ----
(***************************************************************************)
(* The resource loader of acres/__init__.py: the process-wide ExitStack    *)
(* (EXIT_STACK), the memoised _cache_resource and the Loader wrapper with  *)
(* its readable / as_path / cached methods.                                *)
(*                                                                         *)
(* The standard-library pieces the module is built from are modelled by    *)
(* what they do: functools.cache is a lookup, a call of the wrapped        *)
(* function on a miss, and a store of its result (three steps of the       *)
(* calling thread, other threads may run between them; an exception is     *)
(* not stored); importlib.resources.as_file yields an on-disk resource as  *)
(* its own path and copies any other resource to a fresh temporary that    *)
(* it removes when the context exits; ExitStack.close pops and exits the   *)
(* registered contexts last-in first-out and re-raises the last exception  *)
(* one of them raised.                                                     *)
(***************************************************************************)
EXTENDS Naturals, Sequences, FiniteSets, TLC

VARIABLES
    loaders,    \* the Loader objects constructed so far: their _anchor
    cache,      \* the dictionary of functools.cache around _cache_resource
    acqs,       \* every context ever entered on EXIT_STACK, in order (history)
    registry,   \* EXIT_STACK._exit_callbacks: indices into acqs, bottom first
    closeLog,   \* every context exit performed by EXIT_STACK.close (history)
    tmpFiles,   \* the temporary files that exist on disk
    stuck,      \* temporary files whose removal raises (environment fault)
    scopes,     \* the open as_path contexts
    pc,         \* per thread: where it is inside a cached call
    call,       \* per thread: the cached call it is in
    returned,   \* every (anchor, segments, path) a cached call returned (history)
    exitRuns,   \* how many times EXIT_STACK.close has run
    last,       \* the outcome of the last operation
    topLevel,   \* the entries files(anchor).iterdir() yields: name, is_dir()
    script,     \* the chat script the Streamlit session runs
    started,    \* "chat" in st.session_state
    messages,   \* st.session_state.messages
    pdfText,    \* st.session_state.pdf_text
    chatErr     \* the exception that ended the last run of the script, or ""

\* The session state of the chat scripts.
chatVars == <<script, started, messages, pdfText, chatErr>>

\* What no operation of the Loader writes.
frame == <<topLevel, chatVars>>

\* The state of the acres module and its Loaders.
loaderVars == <<loaders, cache, acqs, registry, closeLog, tmpFiles, stuck,
                scopes, pc, call, returned, exitRuns, last>>

vars == <<loaderVars, frame>>

\* ------------------------------------------------------------------ bounds

MaxLoaders == 2
MaxAcq == 2
MaxScopes == 1
MaxExitRuns == 2
NThreads == 2
MaxEntries == 3
MaxMessages == 6

Threads == 1..NThreads

\* -------------------------------------------------------------- Loader._doc

\* Names are Python strings: sequences of code points. 'tests', and the
\* names a package directory may hold in the model:
\* 'a', 'a.b', 'b', '_p', '.h' and 'tests'.
Tests == <<116, 101, 115, 116, 115>>
NamePool == {<<97>>, <<97, 46, 98>>, <<98>>, <<95, 112>>, <<46, 104>>, Tests}

\* The directory listings: at most MaxEntries entries, no name twice, each a
\* file or a directory.
EntrySets ==
    {E \in SUBSET [name : NamePool, dir : BOOLEAN] :
        /\ Cardinality(E) <= MaxEntries
        /\ \A x, y \in E : x.name = y.name => x = y}

\* The listing of the packages of the Loader specifications: data/ only.
PkgTop == {[name |-> <<100, 97, 116, 97>>, dir |-> TRUE]}

\* A filter that hides dot-files only.
IsPublic_DotOnly(name) == name[1] # 46

\* p.name[0] not in ('.', '_') and p.name != 'tests'
IsPublic(name) == name[1] \notin {46, 95} /\ name # Tests

\* f'{p.name}/' if p.is_dir() else p.name
Shown(e) == IF e.dir THEN e.name \o <<47>> ELSE e.name

\* Python's < on str: the first differing code point decides, and a proper
\* prefix is smaller.
StrLess(a, b) ==
    \E i \in 1..Len(b) :
        /\ i <= Len(a) + 1
        /\ \A j \in 1..(i - 1) : a[j] = b[j]
        /\ i = Len(a) + 1 \/ a[i] < b[i]

\* sorted(...) of distinct strings: ascending by StrLess.
RECURSIVE SortedStrs(_)
SortedStrs(S) ==
    IF S = {} THEN <<>>
    ELSE LET m == CHOOSE x \in S : \A y \in S \ {x} : StrLess(x, y)
         IN  <<m>> \o SortedStrs(S \ {m})

\* top_level: the shown strings of the public entries, sorted as strings.
TopLevelOf(entries) == SortedStrs({Shown(e) : e \in {x \in entries : IsPublic(x.name)}})

\* doclines, the lines that '\n'.join makes the docstring of: the sentence
\* naming the anchor, a blank line, the heading, a blank line, then one
\* bullet for every string of top_level.
DocLine(text, arg) == [text |-> text, arg |-> arg]
Doc(anchor, entries) ==
    LET top == TopLevelOf(entries)
    IN  << DocLine("Load package files relative to", anchor),
           DocLine("", <<>>),
           DocLine("This package contains the following (top-level) files/directories:", <<>>),
           DocLine("", <<>>) >>
        \o [i \in 1..Len(top) |-> DocLine("*", top[i])]

\* ------------------------------------------------------------- environment

\* The importable packages: one installed as a zip archive, one as files.
ZippedPkgs == {"pkgz"}
DiskPkgs == {"pkgd"}
KnownPkgs == ZippedPkgs \cup DiskPkgs

\* An anchor is a fully-qualified name (str) or a module object (mod).
StrAnchor(ns) == [form |-> "str", ns |-> ns]
ModAnchor(ns) == [form |-> "mod", ns |-> ns]
NoAnchor == [form |-> "", ns |-> ""]

AnchorInputs ==
    {StrAnchor("pkgz"), ModAnchor("pkgz"), StrAnchor("pkgd"), StrAnchor("nope")}

SegmentInputs == {<<"data">>, <<"data", "resource.ext">>}

NoPath == [tmp |-> 0, ns |-> "", segs |-> <<>>]
RealPath(ns, segs) == [tmp |-> 0, ns |-> ns, segs |-> segs]
TmpPath(n, ns, segs) == [tmp |-> n, ns |-> ns, segs |-> segs]

\* files(anchor): a name is imported, a module object is used as it is.
Resolves(anchor) == anchor.form = "mod" \/ anchor.ns \in KnownPkgs

\* as_file(traversable).__enter__: the path it yields.
AsFilePath(ns, segs, n) ==
    IF ns \in DiskPkgs THEN RealPath(ns, segs) ELSE TmpPath(n, ns, segs)

\* as_file(...).__exit__ for the context that yielded path: the temporaries
\* left on disk.
AsFileRelease(path, files, stk) ==
    IF path.tmp = 0 \/ path.tmp \in stk THEN files ELSE files \ {path.tmp}

AsFileReleaseRaises(path, stk) == path.tmp # 0 /\ path.tmp \in stk

Outcome(op, anchor, segs, path, err) ==
    [op |-> op, anchor |-> anchor, segs |-> segs, path |-> path, err |-> err]

\* A thread that is in no cached call.
NoCall == [anchor |-> NoAnchor, segs |-> <<>>, key |-> <<>>, path |-> NoPath]

LoaderInit ==
    /\ loaders = <<>>
    /\ cache = <<>>
    /\ acqs = <<>>
    /\ registry = <<>>
    /\ closeLog = <<>>
    /\ tmpFiles = {}
    /\ stuck = {}
    /\ scopes = <<>>
    /\ pc = [t \in Threads |-> "idle"]
    /\ call = [t \in Threads |-> NoCall]
    /\ returned = {}
    /\ exitRuns = 0
    /\ last = Outcome("init", NoAnchor, <<>>, NoPath, "")

\* st.session_state of a new browser session: empty.
NoPdf == "unset"
SessionInit ==
    /\ started = FALSE
    /\ messages = <<>>
    /\ pdfText = NoPdf
    /\ chatErr = ""

Init == LoaderInit /\ topLevel = PkgTop /\ script = "none" /\ SessionInit

\* ------------------------------------------------------------------ Loader

\* A constructor that only stores the anchor and resolves it on first use.
ConstructResolves_Lazy(anchor) == TRUE

\* Loader.__init__: self.files = files(anchor) resolves the anchor at once.
ConstructResolves(anchor) == Resolves(anchor)

\* Loader(anchor). files(anchor) builds a new Traversable for every Loader:
\* the object is identified by the Loader's position. self.__doc__ = self._doc
\* reads the top-level entries and builds the instance docstring.
Construct(anchor) ==
    /\ Len(loaders) < MaxLoaders
    /\ IF ConstructResolves(anchor)
       THEN /\ loaders' = Append(loaders, [anchor |-> anchor, files |-> Len(loaders) + 1,
                                     doc |-> Doc(anchor, topLevel)])
            /\ last' = Outcome("construct", anchor, <<>>, NoPath, "")
       ELSE /\ loaders' = loaders
            /\ last' = Outcome("construct", anchor, <<>>, NoPath, "ModuleNotFoundError")
    /\ UNCHANGED <<cache, acqs, registry, closeLog, tmpFiles, stuck, scopes,
                   pc, call, returned, exitRuns>>
    /\ UNCHANGED frame

\* Loader.readable: self.files.joinpath(*segments), a handle and no path;
\* nothing is resolved again and nothing is written.
Readable(w, segs) ==
    /\ w \in DOMAIN loaders
    /\ last' = Outcome("readable", NoAnchor, <<>>, NoPath, "")
    /\ UNCHANGED <<loaders, cache, acqs, registry, closeLog, tmpFiles, stuck,
                   scopes, pc, call, returned, exitRuns>>
    /\ UNCHANGED frame

\* tempfile.mkstemp: a name that no file has. The model takes the least
\* number that names no temporary on disk and no path EXIT_STACK ever held.
TmpInUse == tmpFiles \cup {acqs[i].path.tmp : i \in DOMAIN acqs}
FreshTmp == CHOOSE n \in 1..(Cardinality(TmpInUse) + 1) :
                /\ n \notin TmpInUse
                /\ \A m \in 1..(n - 1) : m \in TmpInUse

\* Threads that missed the cache and have not yet run _cache_resource.
Pending == Cardinality({t \in Threads : pc[t] = "materializing"})

\* A scope whose temporary is removed only when the block ends normally.
ScopeExit_LeakOnException(path, exc, files, stk) ==
    IF exc THEN files ELSE AsFileRelease(path, files, stk)

\* The end of an as_path scope, normal (exc = FALSE) or by an exception raised
\* inside it: the context manager as_file returned is exited either way.
ScopeExit(path, exc, files, stk) == AsFileRelease(path, files, stk)

\* with loader.as_path(*segments) as p: the context is created and entered.
\* Copying a zipped resource to its temporary may fail (ok = FALSE).
AsPathEnter(w, segs, ok) ==
    /\ w \in DOMAIN loaders
    /\ Len(scopes) < MaxScopes
    /\ LET anchor == loaders[w].anchor
           path == AsFilePath(anchor.ns, segs, FreshTmp)
       IN  /\ ok \/ anchor.ns \in ZippedPkgs
           /\ IF ok
              THEN /\ scopes' = Append(scopes, path)
                   /\ tmpFiles' = IF path.tmp = 0 THEN tmpFiles ELSE tmpFiles \cup {path.tmp}
                   /\ last' = Outcome("as_path", anchor, segs, path, "")
              ELSE /\ UNCHANGED <<scopes, tmpFiles>>
                   /\ last' = Outcome("as_path", anchor, segs, NoPath, "OSError")
    /\ UNCHANGED <<loaders, cache, acqs, registry, closeLog, stuck, pc, call,
                   returned, exitRuns>>
    /\ UNCHANGED frame

RemoveAt(s, i) == [j \in 1..(Len(s) - 1) |-> IF j < i THEN s[j] ELSE s[j + 1]]

\* The with block of an as_path context ends.
AsPathExit(i, exc) ==
    /\ i \in DOMAIN scopes
    /\ scopes' = RemoveAt(scopes, i)
    /\ tmpFiles' = ScopeExit(scopes[i], exc, tmpFiles, stuck)
    /\ last' = Outcome(IF exc THEN "as_path_exit_exc" ELSE "as_path_exit", NoAnchor, <<>>,
                       scopes[i],
                       IF AsFileReleaseRaises(scopes[i], stuck) THEN "OSError" ELSE "")
    /\ UNCHANGED <<loaders, cache, acqs, registry, closeLog, stuck, pc, call,
                   returned, exitRuns>>
    /\ UNCHANGED frame

\* ------------------------------------------------------------------ cached

\* A cache keyed on the Loader's own Traversable: one entry per Loader object.
CacheKey_ByFilesObject(loader, segs) == <<loader.anchor, segs, loader.files>>

\* A cache that keys a resource on its top-level segment, so that a file
\* beneath a cached directory is served from the directory's entry.
CacheKey_ByTopSegment(loader, segs) == <<loader.anchor, <<segs[1]>>>>

\* Loader.cached: the arguments _cache_resource is memoised on, self._anchor
\* and segments (and not self.files).
CacheKey(loader, segs) == <<loader.anchor, segs>>

\* functools.cache, first step: the lookup. A hit returns the stored path; a
\* miss goes on to call _cache_resource. Threads are interchangeable: a new
\* call is run by the first thread that is in none.
CachedLookup(t, w, segs) ==
    /\ pc[t] = "idle"
    /\ \A u \in Threads : u < t => pc[u] # "idle"
    /\ w \in DOMAIN loaders
    /\ LET anchor == loaders[w].anchor
           key == CacheKey(loaders[w], segs)
       IN  IF key \in DOMAIN cache
           THEN /\ last' = Outcome("cached", anchor, segs, cache[key], "")
                /\ returned' = returned \cup
                       {[anchor |-> anchor, segs |-> segs, path |-> cache[key]]}
                /\ UNCHANGED <<pc, call>>
           ELSE /\ Len(acqs) + Pending < MaxAcq
                /\ pc' = [pc EXCEPT ![t] = "materializing"]
                /\ call' = [call EXCEPT ![t] =
                       [anchor |-> anchor, segs |-> segs, key |-> key, path |-> NoPath]]
                /\ UNCHANGED <<last, returned>>
    /\ UNCHANGED <<loaders, cache, acqs, registry, closeLog, tmpFiles, stuck,
                   scopes, exitRuns>>
    /\ UNCHANGED frame

\* A context that is entered and whose exit is never registered.
EnterContext_NotRegistered(reg, id) == reg

\* EXIT_STACK.enter_context(cm), after cm.__enter__() returned: the context's
\* exit is pushed on the stack.
EnterContext(reg, id) == Append(reg, id)

\* A memoisation that stores the failure as the key's result.
CacheAfterFailure_Negative(c, key) == (key :> NoPath) @@ c

\* What functools.cache does with an exception of the wrapped function:
\* nothing is stored.
CacheAfterFailure(c, key) == c

\* _cache_resource(anchor, segments), run by a thread that missed:
\* files(anchor).joinpath(*segments) is resolved, as_file is entered and its
\* exit is registered on EXIT_STACK. Resolution may raise, and so may the copy
\* of a zipped resource (ok = FALSE); then nothing is registered and the
\* exception passes through functools.cache to the caller.
CachedMaterialize(t, ok) ==
    /\ pc[t] = "materializing"
    /\ LET c == call[t]
           path == AsFilePath(c.anchor.ns, c.segs, FreshTmp)
           err == IF ~Resolves(c.anchor) THEN "ModuleNotFoundError"
                  ELSE IF ~ok THEN "OSError" ELSE ""
       IN  /\ ok \/ c.anchor.ns \in ZippedPkgs
           /\ IF err = ""
              THEN /\ acqs' = Append(acqs, [anchor |-> c.anchor, segs |-> c.segs,
                                          key |-> c.key, path |-> path])
                   /\ registry' = EnterContext(registry, Len(acqs) + 1)
                   /\ tmpFiles' = IF path.tmp = 0 THEN tmpFiles ELSE tmpFiles \cup {path.tmp}
                   /\ pc' = [pc EXCEPT ![t] = "store"]
                   /\ call' = [call EXCEPT ![t].path = path]
                   /\ UNCHANGED <<cache, last>>
              ELSE /\ cache' = CacheAfterFailure(cache, c.key)
                   /\ pc' = [pc EXCEPT ![t] = "idle"]
                   /\ call' = [call EXCEPT ![t] = NoCall]
                   /\ last' = Outcome("cached", c.anchor, c.segs, NoPath, err)
                   /\ UNCHANGED <<acqs, registry, tmpFiles>>
    /\ UNCHANGED <<loaders, closeLog, stuck, scopes, returned, exitRuns>>
    /\ UNCHANGED frame

\* A bounded memo table of one entry: storing a result evicts the others.
StoreResult_Bounded(c, key, path) == key :> path

\* functools.cache is unbounded (lru_cache(maxsize=None)): storing a result
\* adds or overwrites the entry of its key and evicts nothing.
StoreResult(c, key, path) == (key :> path) @@ c

\* functools.cache, last step: the result is stored under the key (replacing
\* what another thread stored meanwhile) and returned.
CachedStore(t) ==
    /\ pc[t] = "store"
    /\ LET c == call[t]
       IN  /\ cache' = StoreResult(cache, c.key, c.path)
           /\ last' = Outcome("cached", c.anchor, c.segs, c.path, "")
           /\ returned' = returned \cup
                  {[anchor |-> c.anchor, segs |-> c.segs, path |-> c.path]}
    /\ pc' = [pc EXCEPT ![t] = "idle"]
    /\ call' = [call EXCEPT ![t] = NoCall]
    /\ UNCHANGED <<loaders, acqs, registry, closeLog, tmpFiles, stuck, scopes,
                   exitRuns>>
    /\ UNCHANGED frame

\* ------------------------------------------------------------------ exit hook

\* A stack closed in the order of registration.
CloseOrder_Fifo(reg) == reg

\* ExitStack.close: the order in which the registered contexts are exited
\* (each is popped from the end of the stack).
CloseOrder(reg) == [i \in 1..Len(reg) |-> reg[Len(reg) + 1 - i]]

\* A close that walks the stack without popping it.
RegistryAfterClose_Kept(reg) == reg

\* ExitStack.close: what is left on the stack.
RegistryAfterClose(reg) == <<>>

\* A hook that also empties the memo table (_cache_resource.cache_clear()).
CacheAfterClose_Cleared(c) == <<>>

\* The hook is EXIT_STACK.close alone: the dictionary of functools.cache is
\* not touched by it.
CacheAfterClose(c) == c

\* atexit's EXIT_STACK.close(): every registered context is popped and exited;
\* an exception raised by one exit does not stop the others, and the last one
\* raised is raised again by close.
ExitHook ==
    /\ exitRuns < MaxExitRuns
    /\ LET order == CloseOrder(registry)
           gone == {acqs[order[i]].path.tmp : i \in DOMAIN order} \ ({0} \cup stuck)
           raises == \E i \in DOMAIN order : AsFileReleaseRaises(acqs[order[i]].path, stuck)
       IN  /\ closeLog' = closeLog \o
                  [i \in DOMAIN order |-> [acq |-> order[i], run |-> exitRuns + 1]]
           /\ tmpFiles' = tmpFiles \ gone
           /\ last' = Outcome("exit", NoAnchor, <<>>, NoPath,
                              IF raises THEN "OSError" ELSE "")
    /\ registry' = RegistryAfterClose(registry)
    /\ exitRuns' = exitRuns + 1
    /\ cache' = CacheAfterClose(cache)
    /\ UNCHANGED <<loaders, acqs, stuck, scopes, pc, call, returned>>
    /\ UNCHANGED frame

\* ------------------------------------------------------------ specifications

\* ------------------------------------------------------------- environment faults

\* A temporary becomes impossible to remove (its directory turns read-only):
\* os.remove raises for it from now on.
MarkStuck(n) ==
    /\ n \in tmpFiles \ stuck
    /\ stuck' = stuck \cup {n}
    /\ UNCHANGED <<loaders, cache, acqs, registry, closeLog, tmpFiles, scopes, pc,
                   call, returned, exitRuns, last>>
    /\ UNCHANGED frame

\* Something outside the program removes a temporary. as_file's exit passes
\* over the FileNotFoundError of a temporary that is already gone.
ExternalRemove(n) ==
    /\ n \in tmpFiles \ stuck
    /\ tmpFiles' = tmpFiles \ {n}
    /\ UNCHANGED <<loaders, cache, acqs, registry, closeLog, stuck, scopes, pc,
                   call, returned, exitRuns, last>>
    /\ UNCHANGED frame

\* ------------------------------------------------------------ specifications

\* Threads call the Loader concurrently; the file system behaves; atexit
\* runs the hook once.
Next ==
    \/ \E a \in AnchorInputs : Construct(a)
    \/ \E w \in 1..MaxLoaders, s \in SegmentInputs : Readable(w, s)
    \/ \E w \in 1..MaxLoaders, s \in SegmentInputs, ok \in BOOLEAN : AsPathEnter(w, s, ok)
    \/ \E i \in 1..MaxScopes, exc \in BOOLEAN : AsPathExit(i, exc)
    \/ \E t \in Threads, w \in 1..MaxLoaders, s \in SegmentInputs : CachedLookup(t, w, s)
    \/ \E t \in Threads, ok \in BOOLEAN : CachedMaterialize(t, ok)
    \/ \E t \in Threads : CachedStore(t)
    \/ exitRuns = 0 /\ ExitHook

Spec == Init /\ [][Next]_vars

\* A single thread: every call runs to its end before the next operation
\* starts. The hook may be run again (EXIT_STACK.close registered or called
\* more than once).
AllIdle == \A t \in Threads : pc[t] = "idle"

SeqNext ==
    \/ AllIdle /\ \E a \in AnchorInputs : Construct(a)
    \/ AllIdle /\ \E w \in 1..MaxLoaders, s \in SegmentInputs : Readable(w, s)
    \/ AllIdle /\ \E w \in 1..MaxLoaders, s \in SegmentInputs, ok \in BOOLEAN :
                      AsPathEnter(w, s, ok)
    \/ AllIdle /\ \E i \in 1..MaxScopes, exc \in BOOLEAN : AsPathExit(i, exc)
    \/ AllIdle /\ \E w \in 1..MaxLoaders, s \in SegmentInputs : CachedLookup(1, w, s)
    \/ \E ok \in BOOLEAN : CachedMaterialize(1, ok)
    \/ CachedStore(1)
    \/ AllIdle /\ ExitHook

SeqSpec == Init /\ [][SeqNext]_vars

\* A single thread that builds Loaders, calls cached and runs the exit hook,
\* on a file system where temporaries can become impossible to remove or be
\* removed from outside.
FaultNext ==
    \/ AllIdle /\ \E a \in AnchorInputs : Construct(a)
    \/ AllIdle /\ \E w \in 1..MaxLoaders, s \in SegmentInputs : CachedLookup(1, w, s)
    \/ \E ok \in BOOLEAN : CachedMaterialize(1, ok)
    \/ CachedStore(1)
    \/ AllIdle /\ ExitHook
    \/ AllIdle /\ \E n \in 1..MaxAcq : MarkStuck(n)
    \/ AllIdle /\ \E n \in 1..MaxAcq : ExternalRemove(n)

FaultSpec == Init /\ [][FaultNext]_vars

\* Loaders constructed for packages of any top-level content.
DocInit == LoaderInit /\ topLevel \in EntrySets /\ script = "none" /\ SessionInit

DocNext == \E a \in AnchorInputs : Construct(a)

DocSpec == DocInit /\ [][DocNext]_vars

\* --------------------------------------------------------------- chat scripts

\* What the user types into st.chat_input in a run ("" for nothing), the
\* file in st.file_uploader (none, a readable PDF, one fitz.open rejects).
ChatInputs == {"", "q1", "q2"}
PdfInputs == {"none", "good", "corrupt"}

Message(role, content) == [role |-> role, content |-> content]

\* The answer recorded for a submitted input: response.text, or the text the
\* except branch builds from the exception of send_message.
Answer(scr, remoteOk) ==
    IF remoteOk THEN "response.text"
    ELSE IF scr = "genai" THEN " Error: e" ELSE "Error: e"

\* if "chat" not in st.session_state: messages = [] (once per session).
SessionMessages == IF started THEN messages ELSE <<>>

\* One run of genai.py, from the top to the end of the script.
GenaiRun(input, remoteOk) ==
    /\ script = "genai"
    /\ Len(SessionMessages) + 2 <= MaxMessages
    /\ started' = TRUE
    /\ messages' =
           IF input = "" THEN SessionMessages
           ELSE SessionMessages \o << Message("user", input),
                                      Message("assistant", Answer("genai", remoteOk)) >>
    /\ chatErr' = ""
    /\ UNCHANGED <<script, pdfText, topLevel, loaderVars>>

\* One run of genai2.py. fitz.open may raise on the uploaded file and ends the
\* run there; reading st.session_state.pdf_text raises AttributeError when no
\* run has stored it, after the user message was appended and outside the try.
Genai2Run(input, pdf, remoteOk) ==
    /\ script = "genai2"
    /\ Len(SessionMessages) + 2 <= MaxMessages
    /\ started' = TRUE
    /\ IF pdf = "corrupt"
       THEN /\ messages' = SessionMessages
            /\ pdfText' = pdfText
            /\ chatErr' = "fitz.FileDataError"
       ELSE LET text == IF pdf = "good" THEN "pdf_text" ELSE pdfText
            IN  /\ pdfText' = text
                /\ IF input = ""
                   THEN /\ messages' = SessionMessages
                        /\ chatErr' = ""
                   ELSE IF text = NoPdf
                        THEN /\ messages' = Append(SessionMessages, Message("user", input))
                             /\ chatErr' = "AttributeError"
                        ELSE /\ messages' = SessionMessages \o
                                    << Message("user", input),
                                       Message("assistant", Answer("genai2", remoteOk)) >>
                             /\ chatErr' = ""
    /\ UNCHANGED <<script, topLevel, loaderVars>>

ChatInit ==
    /\ LoaderInit /\ topLevel = PkgTop
    /\ script \in {"genai", "genai2"}
    /\ SessionInit

ChatNext ==
    \/ \E input \in ChatInputs, remoteOk \in BOOLEAN : GenaiRun(input, remoteOk)
    \/ \E input \in ChatInputs, pdf \in PdfInputs, remoteOk \in BOOLEAN :
           Genai2Run(input, pdf, remoteOk)

ChatSpec == ChatInit /\ [][ChatNext]_vars

\* ------------------------------------------------------------------ claims

Range(f) == {f[i] : i \in DOMAIN f}

\* No identity (anchor value, segments) was entered on EXIT_STACK twice.
ExtractedOnce ==
    \A i, j \in DOMAIN acqs :
        (acqs[i].anchor = acqs[j].anchor /\ acqs[i].segs = acqs[j].segs) => i = j

\* C1. Identity stability (single thread): all cached calls with an equal
\* (anchor, segments) pair, through whichever Loader built from that anchor
\* value, returned the same path, and no identity was extracted twice.
IdentityStability ==
    /\ \A r1, r2 \in returned :
           (r1.anchor = r2.anchor /\ r1.segs = r2.segs) => r1.path = r2.path
    /\ ExtractedOnce

\* C1 witness: two Loaders share an anchor of the zipped package; one of its
\* identities was materialised, then another identity, and the last call
\* returned the first identity's path again (a cache hit).
IdentityStabilityWitness ==
    /\ Len(loaders) = 2 /\ loaders[1].anchor = loaders[2].anchor
    /\ Len(acqs) = 2
    /\ last.op = "cached" /\ last.err = ""
    /\ last.anchor = acqs[1].anchor /\ last.segs = acqs[1].segs
    /\ last.path = acqs[1].path /\ last.path.tmp # 0
    /\ acqs[2].segs # acqs[1].segs

\* C2. At-most-once materialisation under concurrency: however the threads'
\* cached calls interleave, no identity is entered on EXIT_STACK more than once.
AtMostOnceUnderConcurrency ==
    \A i \in DOMAIN acqs :
        Cardinality({j \in DOMAIN acqs :
            acqs[j].anchor = acqs[i].anchor /\ acqs[j].segs = acqs[i].segs}) <= 1

\* C3. Anchor-construction independence: cache entries for the same package
\* and the same segments are one entry with one path, whether the anchor was
\* given as the package's name or as its module object.
AnchorConstructionIndependence ==
    \A k1, k2 \in DOMAIN cache :
        (k1[1].ns = k2[1].ns /\ k1[2] = k2[2]) => (k1 = k2 /\ cache[k1] = cache[k2])

Closed == {closeLog[i].acq : i \in DOMAIN closeLog}

\* Acquisition i is on EXIT_STACK and what it holds is on disk.
Held(i) ==
    /\ i \in Range(registry)
    /\ acqs[i].path.tmp # 0 => acqs[i].path.tmp \in tmpFiles

\* C4. Persistent survival: every path a cached call returned is backed by
\* an acquisition, and each such acquisition is held on EXIT_STACK with its
\* temporary on disk unless the exit hook closed it; before the hook runs
\* all of them are held, whatever else was called in between.
PersistentSurvival ==
    \A r \in returned :
        /\ \E i \in DOMAIN acqs : acqs[i].path = r.path
        /\ \A i \in DOMAIN acqs :
               acqs[i].path = r.path =>
                   /\ Held(i) \/ i \in Closed
                   /\ exitRuns = 0 => Held(i)

\* C4 witness: before the hook ever ran, an as_path scope on a zipped
\* resource was closed while a cached path of the same resource is still held.
PersistentSurvivalWitness ==
    /\ exitRuns = 0
    /\ last.op \in {"as_path_exit", "as_path_exit_exc"}
    /\ last.path.tmp # 0
    /\ \E r \in returned :
           /\ r.path.tmp # 0 /\ r.path.tmp \in tmpFiles
           /\ r.path.ns = last.path.ns /\ r.path.segs = last.path.segs

\* C5. Scope release: the step that ends an as_path scope, normally or by
\* an exception, removes the scope's temporary from the disk and nothing
\* else; the step that opens one yields the file's own path for a package on
\* disk, and for a zipped package extracts a new temporary of its own that
\* no cached call holds or returned; an open scope's temporary stays on disk.
ScopeRelease ==
    /\ [][Len(scopes') < Len(scopes) =>
             /\ last'.op \in {"as_path_exit", "as_path_exit_exc"}
             /\ tmpFiles' = tmpFiles \ {last'.path.tmp}
             /\ last'.path.tmp # 0 => last'.path.tmp \in tmpFiles]_vars
    /\ [][Len(scopes') > Len(scopes) =>
             LET p == scopes'[Len(scopes')]
             IN  IF last'.anchor.ns \in DiskPkgs
                 THEN p = RealPath(last'.anchor.ns, last'.segs) /\ tmpFiles' = tmpFiles
                 ELSE /\ p.tmp \notin tmpFiles /\ tmpFiles' = tmpFiles \cup {p.tmp}
                      /\ \A i \in DOMAIN acqs : acqs[i].path # p
                      /\ \A k \in DOMAIN cache : cache[k] # p]_vars
    /\ [](\A i \in DOMAIN scopes :
             scopes[i].tmp # 0 =>
                 /\ scopes[i].tmp \in tmpFiles
                 /\ \A j \in DOMAIN acqs : acqs[j].path # scopes[i])

\* C5 witness: a scope on a zipped resource ended by an exception and its
\* temporary is gone, while the same resource is cached and still on disk.
ScopeReleaseWitness ==
    /\ last.op = "as_path_exit_exc"
    /\ last.path.tmp # 0 /\ last.path.tmp \notin tmpFiles
    /\ \E k \in DOMAIN cache :
           /\ cache[k].ns = last.path.ns /\ cache[k].segs = last.path.segs
           /\ cache[k].tmp \in tmpFiles

\* C6. Failures are not cached: every cache entry holds the path of an
\* acquisition made for its key, never a failure; and the step in which
\* _cache_resource raises leaves the cache and EXIT_STACK as they were, so
\* the next lookup of that identity misses again.
FailuresNotCached ==
    /\ [](\A k \in DOMAIN cache :
             /\ cache[k] # NoPath
             /\ \E i \in DOMAIN acqs : acqs[i].key = k /\ acqs[i].path = cache[k])
    /\ [][\A t \in Threads :
             (pc[t] = "materializing" /\ pc'[t] = "idle") =>
                 /\ cache' = cache /\ registry' = registry /\ acqs' = acqs
                 /\ last'.op = "cached" /\ last'.err # ""]_vars

\* C6 witness: a cached call for a zipped resource failed; its identity has
\* no cache entry and no acquisition, while another identity is cached.
FailuresNotCachedWitness ==
    /\ last.op = "cached" /\ last.err = "OSError"
    /\ <<last.anchor, last.segs>> \notin DOMAIN cache
    /\ \A i \in DOMAIN acqs : acqs[i].key # <<last.anchor, last.segs>>
    /\ DOMAIN cache # {}

\* C7. Teardown order: every acquisition is either still on EXIT_STACK or
\* was closed by the hook, never both and never twice; within one run of the
\* hook the acquisitions are closed in the reverse of their registration
\* order; and a run leaves nothing behind (whatever is on the stack was
\* registered after everything that was closed).
TeardownOrder ==
    /\ Range(registry) \cup Closed = DOMAIN acqs
    /\ Range(registry) \cap Closed = {}
    /\ \A i, j \in DOMAIN closeLog :
           i < j =>
               /\ closeLog[i].acq # closeLog[j].acq
               /\ closeLog[i].run <= closeLog[j].run
               /\ closeLog[i].run = closeLog[j].run => closeLog[i].acq > closeLog[j].acq
    /\ \A r \in Range(registry), c \in Closed : r > c
    /\ \A i \in DOMAIN closeLog : closeLog[i].run <= exitRuns

\* C7 witness: one run of the hook closed two acquisitions, the later
\* registered first, and the stack is empty.
TeardownOrderWitness ==
    /\ Len(closeLog) = 2
    /\ closeLog[1].run = closeLog[2].run
    /\ closeLog[1].acq = 2 /\ closeLog[2].acq = 1
    /\ registry = <<>>

\* C8. Cleanup idempotence: a run of the hook that finds every acquisition
\* already closed by an earlier run closes nothing, removes nothing, does not
\* raise and leaves the cache and the stack as they were; and no acquisition
\* is ever closed twice.
CleanupIdempotence ==
    /\ [][(exitRuns >= 1 /\ exitRuns' = exitRuns + 1 /\ DOMAIN acqs \subseteq Closed) =>
             /\ closeLog' = closeLog /\ tmpFiles' = tmpFiles
             /\ registry' = registry /\ registry = <<>> /\ cache' = cache
             /\ last'.op = "exit" /\ last'.err = ""]_vars
    /\ [](\A i, j \in DOMAIN closeLog : closeLog[i].acq = closeLog[j].acq => i = j)

\* C8 witness: the hook ran twice; the first run closed an acquisition whose
\* temporary could not be removed (so it raised), the second run closed
\* nothing and did not raise.
CleanupIdempotenceWitness ==
    /\ exitRuns = 2
    /\ closeLog # <<>>
    /\ \A i \in DOMAIN closeLog : closeLog[i].run = 1
    /\ \E i \in DOMAIN closeLog : acqs[closeLog[i].acq].path.tmp \in stuck \cap tmpFiles
    /\ registry = <<>>
    /\ last.op = "exit" /\ last.err = ""

\* C9. Tolerant cleanup: the exit hook never raises, also when the release
\* of one of its acquisitions fails.
TolerantCleanup ==
    last.op = "exit" => last.err = ""

\* C10, as claimed: a failure for an anchor that names no known package
\* happens in readable, as_path or cached and is a ResolutionError.
UnknownAnchorFailsInCall ==
    (last.err # "" /\ ~Resolves(last.anchor) /\ last.anchor # NoAnchor) =>
        /\ last.op \in {"readable", "as_path", "cached"}
        /\ last.err = "ResolutionError"

\* C10, amended. An anchor name that names no known package is rejected when
\* the Loader is constructed, with ModuleNotFoundError: no Loader for it ever
\* exists, no readable, as_path or cached call fails to resolve its anchor,
\* and the failed construction changes neither the Loaders, the cache nor
\* EXIT_STACK.
UnknownAnchorFailsAtConstruction ==
    /\ [](\A w \in DOMAIN loaders : Resolves(loaders[w].anchor))
    /\ [](last.err = "ModuleNotFoundError" =>
             last.op = "construct" /\ ~Resolves(last.anchor))
    /\ []((last.op = "construct" /\ ~Resolves(last.anchor)) =>
             last.err = "ModuleNotFoundError")
    /\ [][(last'.err = "ModuleNotFoundError" /\ last' # last) =>
             /\ loaders' = loaders /\ cache' = cache
             /\ registry' = registry /\ acqs' = acqs /\ tmpFiles' = tmpFiles]_vars

\* C10 witness: with a resource cached and held, the construction of a
\* Loader for an unknown name has just failed.
UnknownAnchorWitness ==
    /\ last.op = "construct" /\ last.err = "ModuleNotFoundError"
    /\ last.anchor = StrAnchor("nope")
    /\ DOMAIN cache # {} /\ registry # <<>>

\* s is a proper prefix of t.
ProperPrefix(s, t) == Len(s) < Len(t) /\ \A i \in DOMAIN s : s[i] = t[i]

\* C11. Distinct identities are cached independently: when cached returned
\* for a directory and for a file beneath it (same anchor), the two have
\* their own cache entries and their own acquisitions, the paths differ (the
\* file is not served from the directory's extraction), and until the hook
\* runs both acquisitions are held with their temporaries on disk.
IndependentIdentities ==
    \A r1, r2 \in returned :
        (r1.anchor = r2.anchor /\ ProperPrefix(r1.segs, r2.segs)) =>
            /\ <<r1.anchor, r1.segs>> \in DOMAIN cache
            /\ <<r2.anchor, r2.segs>> \in DOMAIN cache
            /\ r1.path # r2.path
            /\ r1.path.tmp # 0 => r1.path.tmp # r2.path.tmp
            /\ \E i, j \in DOMAIN acqs :
                   /\ i # j
                   /\ acqs[i].path = r1.path /\ acqs[i].segs = r1.segs
                   /\ acqs[j].path = r2.path /\ acqs[j].segs = r2.segs
                   /\ exitRuns = 0 => (Held(i) /\ Held(j))

\* C11 witness: the directory of the zipped package was cached, then the file
\* beneath it; two entries, two temporaries on disk, before the hook ran.
IndependentIdentitiesWitness ==
    /\ exitRuns = 0
    /\ Len(acqs) = 2 /\ registry = <<1, 2>>
    /\ acqs[1].anchor = acqs[2].anchor /\ acqs[1].anchor.ns \in ZippedPkgs
    /\ acqs[1].segs = <<"data">> /\ acqs[2].segs = <<"data", "resource.ext">>
    /\ Cardinality(DOMAIN cache) = 2
    /\ {acqs[1].path.tmp, acqs[2].path.tmp} \subseteq tmpFiles
    /\ acqs[1].path.tmp # acqs[2].path.tmp
    /\ \E r1, r2 \in returned : r1.path = acqs[1].path /\ r2.path = acqs[2].path

\* The identities a cached call can name, and the lifecycle state of one.
Identities == {<<a, segs>> : a \in AnchorInputs, segs \in SegmentInputs}

IdState(k, c, p, cl) ==
    IF k \in DOMAIN c THEN "CACHED"
    ELSE IF \E t \in Threads : p[t] # "idle" /\ <<cl[t].anchor, cl[t].segs>> = k
         THEN "MATERIALIZING"
         ELSE "UNSEEN"

\* C12 as stated. Every identity only moves UNSEEN -> MATERIALIZING -> CACHED:
\* a step leaves its state alone or takes one of these two moves.
IdentityLifecycleStrict ==
    [][\A k \in Identities :
          LET a == IdState(k, cache, pc, call)
              b == IdState(k, cache', pc', call')
          IN  a = b \/ <<a, b>> \in {<<"UNSEEN", "MATERIALIZING">>,
                                     <<"MATERIALIZING", "CACHED">>}]_vars

\* C12 amended. Every identity moves UNSEEN -> MATERIALIZING -> CACHED, or
\* from MATERIALIZING back to UNSEEN when its materialization fails; an
\* identity that is CACHED stays CACHED in every later state, the run of the
\* exit hook included, and no step removes a cache entry.
IdentityLifecycle ==
    [][/\ \A k \in Identities :
             LET a == IdState(k, cache, pc, call)
                 b == IdState(k, cache', pc', call')
             IN  /\ a = b \/ <<a, b>> \in {<<"UNSEEN", "MATERIALIZING">>,
                                            <<"MATERIALIZING", "CACHED">>,
                                            <<"MATERIALIZING", "UNSEEN">>}
                 /\ <<a, b>> = <<"MATERIALIZING", "UNSEEN">> =>
                        /\ last'.op = "cached" /\ last'.err # ""
                        /\ <<last'.anchor, last'.segs>> = k
       /\ DOMAIN cache \subseteq DOMAIN cache']_vars

\* C12 witness: the hook has run, an identity cached before it is still
\* CACHED, and a failed materialization has just returned another identity to
\* UNSEEN.
IdentityLifecycleWitness ==
    /\ exitRuns = 1
    /\ DOMAIN cache # {}
    /\ last.op = "cached" /\ last.err # ""
    /\ IdState(<<last.anchor, last.segs>>, cache, pc, call) = "UNSEEN"
    /\ \E k \in DOMAIN cache : k[1] = last.anchor

\* The strings the description of Loader w lists, in the order of its bullets.
Listed(w) ==
    LET d == loaders[w].doc
        b == {i \in DOMAIN d : d[i].text = "*"}
    IN  [i \in 1..Cardinality(b) |-> d[i + (Len(d) - Cardinality(b))].arg]

\* The entry name of a listed string: without the trailing separator.
EntryName(str) == IF str[Len(str)] = 47 THEN SubSeq(str, 1, Len(str) - 1) ELSE str

\* The description lists exactly the entries whose name starts with neither
\* '.' nor '_' and is not 'tests', each once, a directory with a trailing '/'
\* and a file without.
ListsPublicEntries(w) ==
    LET L == Listed(w)
        public == {e \in topLevel :
                      e.name[1] # 46 /\ e.name[1] # 95 /\ e.name # Tests}
    IN  /\ Len(L) = Cardinality(public)
        /\ \A e \in public :
               \E i \in DOMAIN L :
                   /\ EntryName(L[i]) = e.name
                   /\ (L[i][Len(L[i])] = 47) <=> e.dir
        /\ \A i, j \in DOMAIN L : i # j => EntryName(L[i]) # EntryName(L[j])

\* C13 as stated. The description lists exactly the public entries, and the
\* listed entries are in lexical order of the entries (of their names).
DocListingByEntryName ==
    \A w \in DOMAIN loaders :
        /\ ListsPublicEntries(w)
        /\ \A i, j \in DOMAIN Listed(w) :
               i < j => StrLess(EntryName(Listed(w)[i]), EntryName(Listed(w)[j]))

\* C13 amended. The description lists exactly the public entries, each once,
\* directories with a trailing separator, in lexical order of the strings as
\* listed (the separator of a directory takes part in the comparison).
DocListing ==
    \A w \in DOMAIN loaders :
        /\ ListsPublicEntries(w)
        /\ \A i, j \in DOMAIN Listed(w) : i < j => StrLess(Listed(w)[i], Listed(w)[j])

\* C13 witness: a Loader of a package holding a directory, a file and a
\* hidden entry or 'tests'; its description lists the first two only.
DocListingWitness ==
    /\ Cardinality(topLevel) = 3
    /\ \E w \in DOMAIN loaders :
           /\ Len(Listed(w)) = 2
           /\ \E i, j \in DOMAIN Listed(w) :
                  Listed(w)[i][Len(Listed(w)[i])] = 47 /\ Listed(w)[j][Len(Listed(w)[j])] # 47

\* A step of a cached call that missed the cache: it leaves the call of
\* _cache_resource (by an exception or to store) or stores its result.
MissStep == \E t \in Threads : pc[t] \in {"materializing", "store"} /\ pc'[t] # pc[t]

RegistryMatchesCache ==
    (exitRuns = 0 /\ AllIdle) =>
        /\ Len(registry) = Cardinality(DOMAIN cache)
        /\ \A k \in DOMAIN cache :
               Cardinality({i \in Range(registry) : acqs[i].key = k}) = 1
        /\ \A i \in Range(registry) : acqs[i].key \in DOMAIN cache

\* C16. The exit hook releases what EXIT_STACK holds and leaves the cache as
\* it is; a cached call always returns the path stored for its identity and
\* no identity is materialized a second time, so after the hook a call for
\* an identity cached before it returns the stored path and registers
\* nothing; what is registered is released by a run of the hook and by
\* nothing else, so an identity first requested after the hook stays held
\* until the hook runs again.
StaleEntries ==
    /\ [][exitRuns' # exitRuns =>
              /\ cache' = cache
              /\ registry' = <<>>
              /\ \A i \in Range(registry) : i \in {closeLog'[n].acq : n \in DOMAIN closeLog'}]_vars
    /\ [][exitRuns' = exitRuns =>
              /\ closeLog' = closeLog
              /\ \A n \in DOMAIN registry : n \in DOMAIN registry' /\ registry'[n] = registry[n]
              /\ \A i \in Range(registry) :
                     acqs[i].path.tmp \in tmpFiles => acqs[i].path.tmp \in tmpFiles']_vars
    /\ [](\A r \in returned :
              /\ <<r.anchor, r.segs>> \in DOMAIN cache
              /\ cache[<<r.anchor, r.segs>>] = r.path)
    /\ [](\A i, j \in DOMAIN acqs : acqs[i].key = acqs[j].key => i = j)
    /\ [](\A i \in Range(registry) : Held(i))

\* C16 witness: the hook ran once; a cached call for an identity of the
\* zipped package cached before it has just returned the stored path, whose
\* temporary is gone; another identity, first requested after the hook, was
\* materialized and is held.
StaleEntriesWitness ==
    /\ exitRuns = 1
    /\ Len(acqs) = 2 /\ registry = <<2>>
    /\ closeLog = <<[acq |-> 1, run |-> 1]>>
    /\ Cardinality(DOMAIN cache) = 2
    /\ acqs[1].path.tmp # 0 /\ acqs[1].path.tmp \notin tmpFiles
    /\ acqs[2].path.tmp \in tmpFiles
    /\ last.op = "cached" /\ last.err = "" /\ last.path = acqs[1].path
    /\ AllIdle

\* The history alternates user, assistant from a user entry on and has even
\* length.
Paired(m) ==
    /\ Len(m) % 2 = 0
    /\ \A i \in DOMAIN m : m[i].role = IF i % 2 = 1 THEN "user" ELSE "assistant"

\* C17. Chat history pairing, in both chat scripts: after any sequence of
\* runs the history is strictly alternating user/assistant entries of even
\* length, whether or not a PDF was uploaded.
ChatPairing == Paired(messages)

\* The pairing in genai.py alone.
ChatPairingGenai == script = "genai" => Paired(messages)

\* The history is append-only.
ChatAppendOnly ==
    [][/\ Len(messages') >= Len(messages)
       /\ \A i \in DOMAIN messages : messages'[i] = messages[i]]_vars

====
